---- MODULE Spec2Model ----
(***************************************************************************)
(* Model of src/components/model_evaluation.py: the ModelEvaluation stage  *)
(* that scores a freshly trained model against the stored best model on a  *)
(* test dataset, writes a report and promotes the trained model when its   *)
(* f1 strictly improves.                                                   *)
(*                                                                         *)
(* Data frames are modelled as a row count and an ordered list of columns  *)
(* (name, dtype, cell values as strings).  Floats are modelled as 16-digit *)
(* fixed-point decimals in two limbs of 8 digits (hi, lo), so that the     *)
(* baseline literals of the code are represented exactly.                  *)
(***************************************************************************)
EXTENDS Integers, Sequences, FiniteSets, TLC

(***************************************************************************)
(* Bounds of the model                                                     *)
(***************************************************************************)
\* rows of a test dataset handed to evaluate_model
MaxRows == 2
\* ModelEvaluation objects constructed and run one after the other
MaxRuns == 2
\* chunks a serialized model file is written in
FileChunks == 2
\* rows of a frame handed to the feature normalizer alone
MaxNormRows == 2

(***************************************************************************)
(* Data frames                                                             *)
(***************************************************************************)
TARGET_COLUMN == "Response"

NaN == "NaN"

Col(name, dtype, vals) == [name |-> name, dtype |-> dtype, vals |-> vals]

Frame(n, cols) == [n |-> n, cols |-> cols]

NoFrame == Frame(0, <<>>)

HasCol(df, name) == \E i \in DOMAIN df.cols : df.cols[i].name = name

GetCol(df, name) == df.cols[CHOOSE i \in DOMAIN df.cols : df.cols[i].name = name]

\* df.drop(name, axis=1)
DropCol(df, name) == [df EXCEPT !.cols = SelectSeq(df.cols, LAMBDA c : c.name # name)]

\* outcome of a step that may raise
Ok(v) == [ok |-> TRUE, val |-> v, exc |-> ""]

Raise(v, e) == [ok |-> FALSE, val |-> v, exc |-> e]

\* a mapping that keeps a value that is no key (Series.replace instead of Series.map)
GenderMapKeep(v) == IF v = "Female" THEN "0" ELSE IF v = "Male" THEN "1" ELSE v

\* the dictionary {'Female': 0, 'Male': 1}; Series.map gives NaN for a value that is no key
GenderMap(v) == IF v = "Female" THEN "0" ELSE IF v = "Male" THEN "1" ELSE NaN

\* a cast that lets a missing value through (astype(float))
AstypeLax(vals) ==
    Ok([i \in DOMAIN vals |->
          IF vals[i] = "True" THEN "1" ELSE IF vals[i] = "False" THEN "0" ELSE vals[i]])

\* Series.astype(int): raises on a missing value
AstypeInt(vals) ==
    IF \E i \in DOMAIN vals : vals[i] = NaN
    THEN Raise(vals, "ValueError")
    ELSE Ok([i \in DOMAIN vals |->
                IF vals[i] = "True" THEN "1" ELSE IF vals[i] = "False" THEN "0" ELSE vals[i]])

\* df['Gender'] = df['Gender'].map({'Female': 0, 'Male': 1}).astype(int)
_map_gender_column(df) ==
    IF ~HasCol(df, "Gender") THEN Raise(df, "KeyError")
    ELSE LET mapped == [i \in 1..df.n |-> GenderMap(GetCol(df, "Gender").vals[i])]
             cast == AstypeInt(mapped)
         IN  IF ~cast.ok THEN Raise(df, cast.exc)
             ELSE Ok([df EXCEPT !.cols = [i \in DOMAIN df.cols |->
                        IF df.cols[i].name = "Gender"
                        THEN Col("Gender", "int", cast.val)
                        ELSE df.cols[i]]])

\* if "_id" in df.columns: df = df.drop("_id", axis=1)
_drop_id_column(df) == IF HasCol(df, "_id") THEN DropCol(df, "_id") ELSE df

\* the category values of the model in the order Python sorts strings
SortedCategories ==
    << "1-2 Year", "< 1 Year", "> 2 Years", "Female", "Male", "No", "Other", "Yes" >>

\* the categories present in a column, sorted
Levels(vals) ==
    SelectSeq(SortedCategories, LAMBDA c : \E i \in DOMAIN vals : vals[i] = c)

\* the indicator columns of one categorical column, the first level dropped
DummiesOf(c) ==
    LET lv == Levels(c.vals)
    IN  [k \in 1..(IF Len(lv) = 0 THEN 0 ELSE Len(lv) - 1) |->
            Col(c.name \o "_" \o lv[k + 1], "bool",
                [i \in DOMAIN c.vals |-> IF c.vals[i] = lv[k + 1] THEN "True" ELSE "False"])]

RECURSIVE AllDummies(_)
AllDummies(cols) ==
    IF cols = <<>> THEN <<>>
    ELSE (IF Head(cols).dtype = "object" THEN DummiesOf(Head(cols)) ELSE <<>>)
         \o AllDummies(Tail(cols))

\* pd.get_dummies(df, drop_first=True): the non-categorical columns, then the indicators
_create_dummy_columns(df) ==
    [df EXCEPT !.cols = SelectSeq(df.cols, LAMBDA c : c.dtype # "object") \o AllDummies(df.cols)]

RenamedName(name) ==
    IF name = "Vehicle_Age_< 1 Year" THEN "Vehicle_Age_lt_1_Year"
    ELSE IF name = "Vehicle_Age_> 2 Years" THEN "Vehicle_Age_gt_2_Years"
    ELSE name

IntCastColumns == {"Vehicle_Age_lt_1_Year", "Vehicle_Age_gt_2_Years", "Vehicle_Damage_Yes"}

\* df.rename(columns=...), then astype('int') for the three indicator columns present
_rename_columns(df) ==
    LET renamed == [i \in DOMAIN df.cols |->
                      Col(RenamedName(df.cols[i].name), df.cols[i].dtype, df.cols[i].vals)]
    IN  IF \E i \in DOMAIN renamed :
              renamed[i].name \in IntCastColumns /\ ~AstypeInt(renamed[i].vals).ok
        THEN Raise(df, "ValueError")
        ELSE Ok([df EXCEPT !.cols = [i \in DOMAIN renamed |->
                   IF renamed[i].name \in IntCastColumns
                   THEN Col(renamed[i].name, "int", AstypeInt(renamed[i].vals).val)
                   ELSE renamed[i]]])

(***************************************************************************)
(* Floats and the four metrics                                             *)
(***************************************************************************)
E8 == 10000 * 10000

\* the float a / b, to 16 decimal digits; sklearn gives 0.0 on a zero division
Float(a, b) ==
    IF b = 0 THEN [hi |-> 0, lo |-> 0]
    ELSE [hi |-> (a * E8) \div b, lo |-> (((a * E8) % b) * E8) \div b]

\* the operands of the subtraction exchanged: q - p
FloatSubSwapped(p, q) ==
    LET h == q.hi - p.hi
        l == q.lo - p.lo
    IN  IF h > 0 /\ l < 0 THEN [hi |-> h - 1, lo |-> l + E8]
        ELSE IF h < 0 /\ l > 0 THEN [hi |-> h + 1, lo |-> l - E8]
        ELSE [hi |-> h, lo |-> l]

\* p - q, as two limbs of the same sign
FloatSub(p, q) ==
    LET h == p.hi - q.hi
        l == p.lo - q.lo
    IN  IF h > 0 /\ l < 0 THEN [hi |-> h - 1, lo |-> l + E8]
        ELSE IF h < 0 /\ l > 0 THEN [hi |-> h + 1, lo |-> l - E8]
        ELSE [hi |-> h, lo |-> l]

\* improvement > 0
GreaterThanZero(d) == d.hi > 0 \/ (d.hi = 0 /\ d.lo > 0)

Labels == {"0", "1"}

Count(y, y_hat, actual, predicted) ==
    Cardinality({i \in DOMAIN y : y[i] = actual /\ y_hat[i] = predicted})

f1_score(y, y_hat) ==
    Float(2 * Count(y, y_hat, "1", "1"),
          2 * Count(y, y_hat, "1", "1") + Count(y, y_hat, "0", "1") + Count(y, y_hat, "1", "0"))

precision_score(y, y_hat) ==
    Float(Count(y, y_hat, "1", "1"), Count(y, y_hat, "1", "1") + Count(y, y_hat, "0", "1"))

recall_score(y, y_hat) ==
    Float(Count(y, y_hat, "1", "1"), Count(y, y_hat, "1", "1") + Count(y, y_hat, "1", "0"))

accuracy_score(y, y_hat) ==
    Float(Count(y, y_hat, "1", "1") + Count(y, y_hat, "0", "0"), Len(y))

Metrics(y, y_hat) ==
    [f1 |-> f1_score(y, y_hat), precision |-> precision_score(y, y_hat),
     recall |-> recall_score(y, y_hat), accuracy |-> accuracy_score(y, y_hat)]

\* best_f1 = 0.4358042535618418, best_precision = 0.2874067214989923,
\* best_recall = 0.9010416666666666, best_accuracy = 0.7132181615902937
BaselineMetrics ==
    [f1 |-> [hi |-> 43580425, lo |-> 35618418],
     precision |-> [hi |-> 28740672, lo |-> 14989923],
     recall |-> [hi |-> 90104166, lo |-> 66666666],
     accuracy |-> [hi |-> 71321816, lo |-> 15902937]]

NoMetrics == [f1 |-> [hi |-> 0, lo |-> 0], precision |-> [hi |-> 0, lo |-> 0],
              recall |-> [hi |-> 0, lo |-> 0], accuracy |-> [hi |-> 0, lo |-> 0]]

(***************************************************************************)
(* Models and files                                                        *)
(***************************************************************************)
\* a predictor: a deterministic function of a row's features (the mapped Gender)
Models == [Labels -> Labels]

\* model.predict(x)
predict(m, x) == [i \in 1..x.n |-> m[GetCol(x, "Gender").vals[i]]]

None == [none |-> TRUE, m |-> [g \in Labels |-> "0"]]

Object(m) == [none |-> FALSE, m |-> m]

Absent == [exists |-> FALSE, data |-> <<>>]

EmptyFile == [exists |-> TRUE, data |-> <<>>]

\* the serialized model m, as the chunks it is written in
ModelFile(m) == [exists |-> TRUE, data |-> [k \in 1..FileChunks |-> [m |-> m, k |-> k]]]

\* load_object(path): the model a complete file holds; raises otherwise
load_object(f) ==
    IF ~f.exists THEN Raise(None, "FileNotFoundError")
    ELSE IF \E m \in Models : f = ModelFile(m)
    THEN Ok(Object(CHOOSE m \in Models : f = ModelFile(m)))
    ELSE Raise(None, "EOFError")

\* os.path.getsize(path)
getsize(f) == Len(f.data)

NoReport == [trained_model |-> NoMetrics, best_model |-> NoMetrics,
             improvement |-> [hi |-> 0, lo |-> 0], model_accepted |-> FALSE]

NoReportFile == [exists |-> FALSE, complete |-> FALSE, report |-> NoReport]

(***************************************************************************)
(* Inputs an upstream stage can hand to the evaluation                     *)
(***************************************************************************)
Genders == {"Female", "Male", "Other"}

\* a test dataset: the identifier column, Gender, the target (or none)
TestFrame(n, g, r, with_target) ==
    Frame(n, << Col("_id", "int", [i \in 1..n |-> "7"]), Col("Gender", "object", g) >>
             \o (IF with_target THEN << Col(TARGET_COLUMN, "int", r) >> ELSE << >>))

TestFrames ==
    UNION { { TestFrame(n, g, r, t) :
                g \in [1..n -> Genders], r \in [1..n -> Labels], t \in BOOLEAN } :
            n \in 1..MaxRows }

TestFiles ==
    {[exists |-> FALSE, df |-> NoFrame]} \cup {[exists |-> TRUE, df |-> d] : d \in TestFrames}

TrainedFiles == {Absent, EmptyFile} \cup {ModelFile(m) : m \in Models}

(***************************************************************************)
(* State                                                                   *)
(***************************************************************************)
VARIABLES
    fs_test,      \* the file at data_ingestion_artifact.test_file_path
    fs_trained,   \* the file at model_trainer_artifact.trained_model_file_path
    fs_best,      \* the file at model_eval_config.best_model_path
    fs_report,    \* the file at model_eval_config.report_path
    pc,           \* the statement initiate_model_evaluation / evaluate_model is at
    loc,          \* the local variables of evaluate_model
    result,       \* what initiate_model_evaluation returned or raised
    runs,         \* evaluations started so far
    pre,          \* the best-model and report files as the current run found them
    rerun,        \* the current run repeats the inputs of a run that just promoted
    hist,         \* f1 of the promoted models: of the last one, and the highest
    reader_saw,   \* what a concurrent reader of best_model_path last read
    nf,           \* the frame the feature normalizer alone is applied to
    npc,          \* the normalizer step that is next
    npass,        \* first or second application of the normalizer
    nf1           \* the frame after the first application

vars == << fs_test, fs_trained, fs_best, fs_report, pc, loc, result, runs, pre, rerun,
           hist, reader_saw, nf, npc, npass, nf1 >>

files == << fs_test, fs_trained, fs_best, fs_report >>

ghosts == << runs, pre, rerun, hist >>

norm == << nf, npc, npass, nf1 >>

Zero == [hi |-> 0, lo |-> 0]

LocInit ==
    [test_df |-> NoFrame, x |-> NoFrame, y |-> << >>, trained_model |-> None,
     trained |-> NoMetrics, best_model |-> None, best |-> NoMetrics,
     improvement |-> Zero, is_accepted |-> FALSE]

NoResult == [kind |-> "none", is_model_accepted |-> FALSE, cause |-> "", wraps |-> 0, at |-> ""]

\* ModelEvaluationArtifact(is_model_accepted=..., report_path, best_model_path, trained_model_path)
ModelEvaluationArtifact(acc) ==
    [kind |-> "artifact", is_model_accepted |-> acc, cause |-> "", wraps |-> 0, at |-> ""]

\* raise MyException(e, sys), once per enclosing try block; at: the statement that raised
MyException(cause, wraps, at) ==
    [kind |-> "raise", is_model_accepted |-> FALSE, cause |-> cause, wraps |-> wraps, at |-> at]

Init ==
    /\ fs_test = [exists |-> FALSE, df |-> NoFrame]
    /\ fs_trained = Absent
    /\ fs_best \in {Absent, EmptyFile} \cup {ModelFile(m) : m \in Models}
    /\ fs_report = NoReportFile
    /\ pc = "idle"
    /\ loc = LocInit
    /\ result = NoResult
    /\ runs = 0
    /\ pre = [best |-> Absent, report |-> NoReportFile]
    /\ rerun = FALSE
    /\ hist = [written |-> FALSE, cur |-> Zero, max |-> Zero]
    /\ reader_saw = [seen |-> FALSE, file |-> Absent]
    /\ nf = NoFrame /\ npc = "off" /\ npass = 0 /\ nf1 = NoFrame

\* the exception swallowed: the run carries on to return an artifact
FailSwallowed(cause, wraps) ==
    /\ pc' = "return"
    /\ UNCHANGED result

\* an exception leaves evaluate_model and initiate_model_evaluation
Fail(cause, wraps) ==
    /\ pc' = "failed"
    /\ result' = MyException(cause, wraps, pc)

(***************************************************************************)
(* ModelEvaluation(...).initiate_model_evaluation()                        *)
(***************************************************************************)
\* the object is constructed on the artifacts of the upstream stages and run
NewModelEvaluation(d, t) ==
    /\ pc \in {"idle", "done", "failed"}
    /\ runs < MaxRuns
    /\ fs_test' = d
    /\ fs_trained' = t
    /\ pc' = "read_csv"
    /\ loc' = LocInit
    /\ result' = NoResult
    /\ runs' = runs + 1
    /\ pre' = [best |-> fs_best, report |-> fs_report]
    /\ rerun' = (pc = "done" /\ result.is_model_accepted /\ d = fs_test /\ t = fs_trained)
    /\ reader_saw' = [seen |-> FALSE, file |-> Absent]
    /\ UNCHANGED << fs_best, fs_report, hist, norm >>

\* test_df = pd.read_csv(test_file_path)
ReadCsv ==
    /\ pc = "read_csv"
    /\ IF fs_test.exists
       THEN /\ loc' = [loc EXCEPT !.test_df = fs_test.df]
            /\ pc' = "split"
            /\ UNCHANGED result
       ELSE /\ Fail("FileNotFoundError", 2)
            /\ UNCHANGED loc
    /\ UNCHANGED << files, ghosts, reader_saw, norm >>

\* x, y = test_df.drop(TARGET_COLUMN, axis=1), test_df[TARGET_COLUMN]
SplitTarget ==
    /\ pc = "split"
    /\ IF HasCol(loc.test_df, TARGET_COLUMN)
       THEN /\ loc' = [loc EXCEPT !.x = DropCol(loc.test_df, TARGET_COLUMN),
                                  !.y = GetCol(loc.test_df, TARGET_COLUMN).vals]
            /\ pc' = "map_gender"
            /\ UNCHANGED result
       ELSE /\ Fail("KeyError", 2)
            /\ UNCHANGED loc
    /\ UNCHANGED << files, ghosts, reader_saw, norm >>

\* x = self._map_gender_column(x)
MapGender ==
    /\ pc = "map_gender"
    /\ LET r == _map_gender_column(loc.x)
       IN  IF r.ok
           THEN /\ loc' = [loc EXCEPT !.x = r.val]
                /\ pc' = "drop_id"
                /\ UNCHANGED result
           ELSE /\ Fail(r.exc, 2)
                /\ UNCHANGED loc
    /\ UNCHANGED << files, ghosts, reader_saw, norm >>

\* x = self._drop_id_column(x)
DropId ==
    /\ pc = "drop_id"
    /\ loc' = [loc EXCEPT !.x = _drop_id_column(loc.x)]
    /\ pc' = "dummies"
    /\ UNCHANGED << files, result, ghosts, reader_saw, norm >>

\* x = self._create_dummy_columns(x)
CreateDummies ==
    /\ pc = "dummies"
    /\ loc' = [loc EXCEPT !.x = _create_dummy_columns(loc.x)]
    /\ pc' = "rename"
    /\ UNCHANGED << files, result, ghosts, reader_saw, norm >>

\* x = self._rename_columns(x)
RenameColumns ==
    /\ pc = "rename"
    /\ LET r == _rename_columns(loc.x)
       IN  IF r.ok
           THEN /\ loc' = [loc EXCEPT !.x = r.val]
                /\ pc' = "load_trained"
                /\ UNCHANGED result
           ELSE /\ Fail(r.exc, 2)
                /\ UNCHANGED loc
    /\ UNCHANGED << files, ghosts, reader_saw, norm >>

\* trained_model = load_object(trained_model_file_path)
LoadTrained ==
    /\ pc = "load_trained"
    /\ LET r == load_object(fs_trained)
       IN  IF r.ok
           THEN /\ loc' = [loc EXCEPT !.trained_model = r.val]
                /\ pc' = "predict_trained"
                /\ UNCHANGED result
           ELSE /\ Fail(r.exc, 2)
                /\ UNCHANGED loc
    /\ UNCHANGED << files, ghosts, reader_saw, norm >>

\* y_hat_train = trained_model.predict(x) and the four scores; predict may raise
PredictTrained ==
    /\ pc = "predict_trained"
    /\ \/ /\ loc' = [loc EXCEPT !.trained = Metrics(loc.y, predict(loc.trained_model.m, loc.x))]
          /\ pc' = "get_best"
          /\ UNCHANGED result
       \/ /\ Fail("PredictError", 2)
          /\ UNCHANGED loc
    /\ UNCHANGED << files, ghosts, reader_saw, norm >>

\* get_best_model without the os.path.getsize(best_model_path) > 0 test
get_best_model_NoSizeTest(f) == IF f.exists THEN load_object(f) ELSE Ok(None)

\* get_best_model that never loads the stored model
get_best_model_AlwaysNone(f) == Ok(None)

\* get_best_model(): the model at best_model_path, None when absent or empty
get_best_model(f) ==
    IF f.exists /\ getsize(f) > 0 THEN load_object(f) ELSE Ok(None)

\* best_model = self.get_best_model()
GetBestModel ==
    /\ pc = "get_best"
    /\ LET r == get_best_model(fs_best)
       IN  IF r.ok
           THEN /\ loc' = [loc EXCEPT !.best_model = r.val]
                /\ pc' = "score_best"
                /\ UNCHANGED result
           ELSE /\ Fail(r.exc, 3)
                /\ UNCHANGED loc
    /\ UNCHANGED << files, ghosts, reader_saw, norm >>

\* the baseline literals, replaced by the best model's scores when there is one
ScoreBest ==
    /\ pc = "score_best"
    /\ IF loc.best_model.none
       THEN /\ loc' = [loc EXCEPT !.best = BaselineMetrics]
            /\ pc' = "decide"
            /\ UNCHANGED result
       ELSE \/ /\ loc' = [loc EXCEPT !.best = Metrics(loc.y, predict(loc.best_model.m, loc.x))]
               /\ pc' = "decide"
               /\ UNCHANGED result
            \/ /\ Fail("PredictError", 2)
               /\ UNCHANGED loc
    /\ UNCHANGED << files, ghosts, reader_saw, norm >>

\* the comparison written as improvement >= 0
IsAcceptedGE(improvement) == GreaterThanZero(improvement) \/ improvement = Zero

\* is_accepted = improvement > 0
IsAccepted(improvement) == GreaterThanZero(improvement)

\* improvement = trained_f1 - best_f1; is_accepted = improvement > 0
Decide ==
    /\ pc = "decide"
    /\ loc' = [loc EXCEPT !.improvement = FloatSub(loc.trained.f1, loc.best.f1),
                          !.is_accepted = IsAccepted(FloatSub(loc.trained.f1, loc.best.f1))]
    /\ pc' = "save_report"
    /\ UNCHANGED << files, result, ghosts, reader_saw, norm >>

evaluation_report(l) ==
    [trained_model |-> l.trained, best_model |-> l.best,
     improvement |-> l.improvement, model_accepted |-> l.is_accepted]

\* self._save_evaluation_report(evaluation_report): open(report_path, 'w'), yaml.dump
SaveReport ==
    /\ pc = "save_report"
    /\ \/ /\ fs_report' = [exists |-> TRUE, complete |-> TRUE, report |-> evaluation_report(loc)]
          /\ pc' = "promote"
          /\ UNCHANGED result
       \/ /\ UNCHANGED fs_report
          /\ Fail("OSError", 2)
       \/ /\ fs_report' = [exists |-> TRUE, complete |-> FALSE, report |-> NoReport]
          /\ Fail("OSError", 2)
    /\ UNCHANGED << fs_test, fs_trained, fs_best, loc, ghosts, reader_saw, norm >>

\* the promotion skipped whatever the decision
PromoteNever ==
    /\ pc = "promote"
    /\ pc' = "return"
    /\ UNCHANGED << files, loc, result, ghosts, reader_saw, norm >>

\* the promotion done whatever the decision
PromoteAlways ==
    /\ pc = "promote"
    /\ pc' = "copy_open"
    /\ UNCHANGED << files, loc, result, ghosts, reader_saw, norm >>

\* if eval_response.is_model_accepted: shutil.copy(src_path, dest_path)
Promote ==
    /\ pc = "promote"
    /\ pc' = IF loc.is_accepted THEN "copy_open" ELSE "return"
    /\ UNCHANGED << files, loc, result, ghosts, reader_saw, norm >>

\* shutil.copy opens dest_path for writing, which truncates it
CopyOpen ==
    /\ pc = "copy_open"
    /\ \/ /\ fs_best' = EmptyFile
          /\ pc' = "copy_write"
          /\ UNCHANGED result
       \/ /\ UNCHANGED fs_best
          /\ Fail("OSError", 1)
    /\ UNCHANGED << fs_test, fs_trained, fs_report, loc, ghosts, reader_saw, norm >>

\* shutil.copy writes the next chunk of src_path to dest_path
CopyWrite ==
    /\ pc = "copy_write"
    /\ \/ /\ fs_best' = [fs_best EXCEPT !.data = Append(@, fs_trained.data[Len(@) + 1])]
          /\ pc' = IF getsize(fs_best) + 1 = getsize(fs_trained) THEN "return" ELSE "copy_write"
          /\ UNCHANGED result
       \/ /\ UNCHANGED fs_best
          /\ Fail("OSError", 1)
    /\ UNCHANGED << fs_test, fs_trained, fs_report, loc, ghosts, reader_saw, norm >>

\* return ModelEvaluationArtifact(is_model_accepted=eval_response.is_model_accepted, ...)
Return ==
    /\ pc = "return"
    /\ pc' = "done"
    /\ result' = ModelEvaluationArtifact(loc.is_accepted)
    /\ hist' = IF loc.is_accepted
               THEN [written |-> TRUE, cur |-> loc.trained.f1,
                     max |-> IF ~hist.written \/ GreaterThanZero(FloatSub(loc.trained.f1, hist.max))
                             THEN loc.trained.f1 ELSE hist.max]
               ELSE hist
    /\ UNCHANGED << files, loc, runs, pre, rerun, reader_saw, norm >>

\* another process reads best_model_path while the promotion copies
Reader ==
    /\ pc \in {"copy_open", "copy_write", "return"}
    /\ loc.is_accepted
    /\ reader_saw' = [seen |-> TRUE, file |-> fs_best]
    /\ UNCHANGED << files, pc, loc, result, ghosts, norm >>

Next ==
    \/ \E d \in TestFiles, t \in TrainedFiles : NewModelEvaluation(d, t)
    \/ ReadCsv \/ SplitTarget \/ MapGender \/ DropId \/ CreateDummies \/ RenameColumns
    \/ LoadTrained \/ PredictTrained \/ GetBestModel \/ ScoreBest \/ Decide \/ SaveReport
    \/ Promote \/ CopyOpen \/ CopyWrite \/ Return \/ Reader

Spec == Init /\ [][Next]_vars

(***************************************************************************)
(* The feature normalizer alone, applied twice to a raw frame              *)
(***************************************************************************)
VehicleAges == {"1-2 Year", "< 1 Year", "> 2 Years"}

VehicleDamages == {"No", "Yes"}

\* a raw feature frame: identifier (or none), Gender, Age, Vehicle_Age, Vehicle_Damage
RawFrame(n, g, a, d, with_id) ==
    Frame(n, (IF with_id THEN << Col("_id", "int", [i \in 1..n |-> "7"]) >> ELSE << >>)
             \o << Col("Gender", "object", g), Col("Age", "int", [i \in 1..n |-> "30"]),
                   Col("Vehicle_Age", "object", a), Col("Vehicle_Damage", "object", d) >>)

RawFrames ==
    UNION { { RawFrame(n, g, a, d, w) :
                g \in [1..n -> Genders], a \in [1..n -> VehicleAges],
                d \in [1..n -> VehicleDamages], w \in BOOLEAN } :
            n \in 0..MaxNormRows }

InitNorm ==
    /\ fs_test = [exists |-> FALSE, df |-> NoFrame]
    /\ fs_trained = Absent
    /\ fs_best = Absent
    /\ fs_report = NoReportFile
    /\ pc = "off"
    /\ loc = LocInit
    /\ result = NoResult
    /\ runs = 0
    /\ pre = [best |-> Absent, report |-> NoReportFile]
    /\ rerun = FALSE
    /\ hist = [written |-> FALSE, cur |-> Zero, max |-> Zero]
    /\ reader_saw = [seen |-> FALSE, file |-> Absent]
    /\ nf \in RawFrames
    /\ npc = "map_gender"
    /\ npass = 1
    /\ nf1 = NoFrame

main == << files, pc, loc, result, ghosts, reader_saw >>

\* x = self._map_gender_column(x)
NormMapGender ==
    /\ npc = "map_gender"
    /\ LET r == _map_gender_column(nf)
       IN  IF r.ok THEN nf' = r.val /\ npc' = "drop_id"
           ELSE nf' = nf /\ npc' = "failed"
    /\ UNCHANGED << main, npass, nf1 >>

\* x = self._drop_id_column(x)
NormDropId ==
    /\ npc = "drop_id"
    /\ nf' = _drop_id_column(nf)
    /\ npc' = "dummies"
    /\ UNCHANGED << main, npass, nf1 >>

\* x = self._create_dummy_columns(x)
NormCreateDummies ==
    /\ npc = "dummies"
    /\ nf' = _create_dummy_columns(nf)
    /\ npc' = "rename"
    /\ UNCHANGED << main, npass, nf1 >>

\* x = self._rename_columns(x); the result of the first application is handed to the second
NormRenameColumns ==
    /\ npc = "rename"
    /\ LET r == _rename_columns(nf)
       IN  IF r.ok
           THEN /\ nf' = r.val
                /\ npc' = IF npass = 1 THEN "map_gender" ELSE "done"
                /\ npass' = IF npass = 1 THEN 2 ELSE npass
                /\ nf1' = IF npass = 1 THEN r.val ELSE nf1
           ELSE nf' = nf /\ npc' = "failed" /\ UNCHANGED << npass, nf1 >>
    /\ UNCHANGED main

NextNorm == NormMapGender \/ NormDropId \/ NormCreateDummies \/ NormRenameColumns

SpecNorm == InitNorm /\ [][NextNorm]_vars

(***************************************************************************)
(* Properties                                                              *)
(***************************************************************************)
\* p < q
FloatLess(p, q) == p.hi < q.hi \/ (p.hi = q.hi /\ p.lo < q.lo)

\* the statements after the decision of evaluate_model
AfterDecide == {"save_report", "promote", "copy_open", "copy_write", "return", "done"}

\* the run returned an artifact
Returned == pc = "done" /\ result.kind = "artifact"

\* C1: the acceptance flag is (trained_f1 - best_f1 > 0), strictly: a trained f1 equal
\* to or lower than the best f1 gives is_accepted = False, a higher one True; the
\* report and the returned artifact carry that flag.
C1_AcceptanceIsStrict ==
    /\ pc \in AfterDecide =>
         /\ loc.is_accepted <=> FloatLess(loc.best.f1, loc.trained.f1)
         /\ loc.trained.f1 = loc.best.f1 => ~loc.is_accepted
         /\ FloatLess(loc.trained.f1, loc.best.f1) => ~loc.is_accepted
    /\ Returned => result.is_model_accepted = loc.is_accepted

\* a run that scored the trained model exactly as a different best model, and returned
C1_Witness ==
    /\ Returned
    /\ loc.trained.f1 = loc.best.f1
    /\ loc.trained.f1 # Zero
    /\ ~loc.best_model.none
    /\ loc.best_model # loc.trained_model
    /\ ~result.is_model_accepted

\* C2: after a run that returns is_model_accepted = True, the file at best_model_path
\* equals the trained-model file, whatever it held before the run.
C2_PromotedEqualsTrained ==
    (Returned /\ result.is_model_accepted) =>
        /\ fs_best = fs_trained
        /\ fs_best = ModelFile(loc.trained_model.m)

\* an accepting run that found another model in the best-model file
C2_Witness ==
    /\ Returned
    /\ result.is_model_accepted
    /\ pre.best.exists
    /\ getsize(pre.best) > 0
    /\ pre.best # fs_trained

\* C3: after a run that returns is_model_accepted = False the best-model file is as the
\* run found it, and no step of a run that does not accept changes a file other than
\* the report.
C3_RejectedLeavesBestUntouched ==
    /\ [](Returned /\ ~result.is_model_accepted => fs_best = pre.best)
    /\ [][(pc \notin {"idle", "done", "failed"} /\ ~loc.is_accepted)
            => UNCHANGED << fs_test, fs_trained, fs_best >>]_vars

\* a rejecting run that found a best model, and wrote its report
C3_Witness ==
    /\ Returned
    /\ ~result.is_model_accepted
    /\ pre.best.exists
    /\ getsize(pre.best) > 0
    /\ fs_best = pre.best
    /\ fs_report # pre.report
    /\ fs_report.complete

\* the f1 on this run's test data of what the run found at best_model_path: of the
\* stored model, or the baseline literal when there was no file or an empty one
PriorBestF1 ==
    IF pre.best.exists /\ getsize(pre.best) > 0
    THEN f1_score(loc.y, predict(load_object(pre.best).val.m, loc.x))
    ELSE [hi |-> 43580425, lo |-> 35618418]

\* C4 as stated: once a run has promoted a model, the best-model file's model has the
\* highest f1 of all the models accepted so far.
C4_BestIsHighestAccepted == hist.written => ~FloatLess(hist.cur, hist.max)

\* C4 amended: the best-model file changes only in the copy of a run whose trained
\* model strictly improves (improvement > 0) on the f1 that the stored model, or the
\* baseline, reaches on that run's test data, never on a tie; and after a run that
\* returns accepted the file holds that run's trained model.
C4_OverwrittenOnlyByStrictImprovement ==
    /\ [][fs_best' # fs_best =>
            /\ pc \in {"copy_open", "copy_write"}
            /\ loc.is_accepted
            /\ GreaterThanZero(loc.improvement)
            /\ FloatLess(PriorBestF1, loc.trained.f1)]_vars
    /\ []((Returned /\ result.is_model_accepted) =>
            /\ fs_best = ModelFile(loc.trained_model.m)
            /\ FloatLess(PriorBestF1, f1_score(loc.y, predict(loc.trained_model.m, loc.x))))

\* a second promotion, of a model whose f1 on its run is below that of the model
\* promoted before on its own run
C4_Witness ==
    /\ Returned
    /\ result.is_model_accepted
    /\ runs = 2
    /\ hist.written
    /\ FloatLess(hist.cur, hist.max)
    /\ fs_best = fs_trained

\* C5: with no file, or an empty file, at best_model_path the run does not fail for it:
\* get_best_model returns None, the best metrics are exactly the baseline literals and
\* the trained model is accepted exactly when its f1 exceeds 0.4358042535618418; with a
\* non-empty file the best metrics are those of the stored model's predictions.
C5_BaselineWhenNoBestModel ==
    /\ (pc = "failed" /\ result.at = "get_best") => (pre.best.exists /\ getsize(pre.best) > 0)
    /\ (pc \in AfterDecide \cup {"decide"} /\ (~pre.best.exists \/ getsize(pre.best) = 0)) =>
         /\ loc.best_model = None
         /\ loc.best.f1 = [hi |-> 43580425, lo |-> 35618418]
         /\ loc.best.precision = [hi |-> 28740672, lo |-> 14989923]
         /\ loc.best.recall = [hi |-> 90104166, lo |-> 66666666]
         /\ loc.best.accuracy = [hi |-> 71321816, lo |-> 15902937]
         /\ pc \in AfterDecide =>
              (loc.is_accepted <=> FloatLess([hi |-> 43580425, lo |-> 35618418], loc.trained.f1))
    /\ (pc \in AfterDecide \cup {"decide"} /\ pre.best.exists /\ getsize(pre.best) > 0) =>
         /\ ~loc.best_model.none
         /\ pre.best = ModelFile(loc.best_model.m)
         /\ loc.best = Metrics(loc.y, predict(loc.best_model.m, loc.x))
         /\ loc.best # BaselineMetrics

\* a run that found an empty best-model file, scored against the baseline and accepted
C5_Witness ==
    /\ Returned
    /\ pre.best = EmptyFile
    /\ loc.best = BaselineMetrics
    /\ result.is_model_accepted

\* the statements of a run, in the order they are executed
Order ==
    << "read_csv", "split", "map_gender", "drop_id", "dummies", "rename", "load_trained",
       "predict_trained", "get_best", "score_best", "decide", "save_report", "promote",
       "copy_open", "copy_write", "return", "done" >>

Pos(p) == CHOOSE i \in DOMAIN Order : Order[i] = p

\* the statement the run has reached: of a failed run, the one that raised
Reached == IF pc = "failed" THEN Pos(result.at) - 1 ELSE Pos(pc) - 1

\* C6: an exception of any step aborts the run: it reaches the caller as a MyException
\* wrapping the cause, no artifact is returned, no later step has run (its locals are
\* unset, its files untouched), a run past a step means that step did not raise, and
\* after the failure nothing runs but a newly constructed evaluation.
C6_ExceptionAbortsRun ==
    /\ [](pc = "failed" =>
            /\ result.kind = "raise" /\ result.wraps >= 1 /\ result.cause # ""
            /\ ~result.is_model_accepted
            /\ Pos(result.at) <= Pos("load_trained") => loc.trained_model = None
            /\ Pos(result.at) <= Pos("predict_trained") => loc.trained = NoMetrics
            /\ Pos(result.at) <= Pos("score_best") => loc.best = NoMetrics
            /\ Pos(result.at) < Pos("save_report") => fs_report = pre.report
            /\ Pos(result.at) <= Pos("copy_open") => fs_best = pre.best)
    /\ [](pc \notin {"idle", "off"} =>
            /\ Reached >= Pos("read_csv") => fs_test.exists
            /\ Reached >= Pos("split") => HasCol(fs_test.df, TARGET_COLUMN)
            /\ Reached >= Pos("map_gender") =>
                 \A i \in 1..fs_test.df.n : GetCol(fs_test.df, "Gender").vals[i] \in {"Female", "Male"}
            /\ Reached >= Pos("load_trained") => \E m \in Models : fs_trained = ModelFile(m)
            /\ (Reached >= Pos("get_best") /\ pre.best.exists /\ getsize(pre.best) > 0) =>
                 \E m \in Models : pre.best = ModelFile(m)
            /\ Reached >= Pos("save_report") =>
                 fs_report = [exists |-> TRUE, complete |-> TRUE, report |-> evaluation_report(loc)]
            /\ (Reached >= Pos("copy_write") /\ loc.is_accepted) => fs_best = fs_trained
            /\ pc = "done" => result.kind = "artifact")
    /\ [][pc = "failed" => (pc' = "read_csv" /\ runs' = runs + 1 /\ result' = NoResult)]_vars

\* a run that accepted its trained model, failed to write the report and so did not promote
C6_Witness ==
    /\ pc = "failed"
    /\ result.at = "save_report"
    /\ loc.is_accepted
    /\ fs_best = pre.best
    /\ fs_best # fs_trained

\* C7: a reader of best_model_path during a promotion reads the complete file the run
\* found there or the complete trained-model file.
C7_ReaderSeesCompleteFile ==
    reader_saw.seen => reader_saw.file \in {pre.best, fs_trained}

\* the Gender column of the test dataset of the current run
RawGender == GetCol(fs_test.df, "Gender").vals

\* C9: the Gender step maps Female to 0 and Male to 1 as integers, and a test dataset
\* with a Gender outside {Female, Male} makes the run fail in that step: no metrics,
\* no report, no promotion.
C9_UnknownGenderFails ==
    /\ (pc \notin {"idle", "off"} /\ Reached >= Pos("map_gender")) =>
         /\ GetCol(loc.x, "Gender").dtype = "int"
         /\ GetCol(loc.x, "Gender").vals =
              [i \in 1..fs_test.df.n |-> IF RawGender[i] = "Female" THEN "0" ELSE "1"]
         /\ \A i \in 1..fs_test.df.n : RawGender[i] \in {"Female", "Male"}
    /\ (/\ pc \notin {"idle", "off", "read_csv", "split", "map_gender"}
        /\ fs_test.exists /\ HasCol(fs_test.df, TARGET_COLUMN)
        /\ \E i \in 1..fs_test.df.n : RawGender[i] \notin {"Female", "Male"}) =>
         /\ pc = "failed" /\ result.at = "map_gender" /\ result.cause = "ValueError"
         /\ result.kind = "raise"
         /\ loc.trained = NoMetrics /\ loc.best = NoMetrics
         /\ fs_report = pre.report
         /\ fs_best = pre.best

\* a run on a dataset with one known and one unknown Gender, failed in the Gender step
C9_Witness ==
    /\ pc = "failed"
    /\ result.at = "map_gender"
    /\ result.cause = "ValueError"
    /\ \E i \in 1..fs_test.df.n : RawGender[i] = "Other"
    /\ \E i \in 1..fs_test.df.n : RawGender[i] = "Male"

\* C10: a run that repeats the test dataset and the trained-model file of a run that
\* just promoted scores the best model as the trained one, finds improvement = 0, does
\* not accept, never starts a copy and leaves the best-model file as it found it.
C10_RerunDoesNotPromote ==
    rerun =>
        /\ pre.best = fs_trained
        /\ pc \in AfterDecide =>
             /\ loc.best = loc.trained
             /\ loc.improvement = Zero
             /\ ~loc.is_accepted
        /\ pc \notin {"copy_open", "copy_write"}
        /\ fs_best = pre.best
        /\ Returned => ~result.is_model_accepted

\* the repeated run has returned
C10_Witness ==
    /\ rerun
    /\ Returned
    /\ ~result.is_model_accepted
    /\ fs_best = fs_trained
    /\ loc.trained.f1 # Zero

\* C8 as stated: the four steps applied to an already-normalized frame succeed and
\* return the frame unchanged.
C8_SecondPassIsNoOp ==
    /\ npass = 2 => npc # "failed"
    /\ npc = "done" => nf = nf1

\* C8 amended: on an already-normalized frame _drop_id_column, _create_dummy_columns
\* and _rename_columns are no-ops, but _map_gender_column raises ValueError as soon as
\* the frame has a row (0 and 1 are no keys of the mapping) and leaves the frame as it
\* was; only a frame without rows passes the four steps, unchanged.
C8_SecondPassFailsInGenderStep ==
    npass = 2 =>
        /\ _drop_id_column(nf1) = nf1
        /\ _create_dummy_columns(nf1) = nf1
        /\ _rename_columns(nf1) = Ok(nf1)
        /\ nf1.n >= 1 => _map_gender_column(nf1) = Raise(nf1, "ValueError")
        /\ nf1.n = 0 => _map_gender_column(nf1) = Ok(nf1)
        /\ npc = "failed" => (nf = nf1 /\ nf1.n >= 1)
        /\ npc \in {"drop_id", "dummies", "rename", "done"} => (nf = nf1 /\ nf1.n = 0)

\* the second application failed in the Gender step on a frame with indicator columns
C8_Witness ==
    /\ npass = 2
    /\ npc = "failed"
    /\ nf = nf1
    /\ nf1.n >= 1
    /\ HasCol(nf1, "Vehicle_Damage_Yes")
    /\ GetCol(nf1, "Gender").dtype = "int"

====
